---- MODULE Spec2Model ----
(***************************************************************************)
(* jpparse: classification of the 29 raw UniDic fields of a word into      *)
(* closed categories (strict and analysis mode), one-hot encoding of the   *)
(* eight closed fields, and the per-line grammar fingerprint of            *)
(* ScriptParser.                                                           *)
(*                                                                         *)
(* A Python str is the sequence of its Unicode code points, so that        *)
(* sorted() and == are what they are in Python; None is a value no str     *)
(* equals.  A float16 is held as the integer v * 2^24: every finite        *)
(* float16 is a whole multiple of 2^-24.                                   *)
(***************************************************************************)
EXTENDS Integers, Sequences, FiniteSets, TLC

\* Python's None (code points are naturals, so no str is <<-1>>).
None == <<-1>>

\* The absence sentinel tested by UnidicField.from_fugashi.
Sentinel == <<42>>

\* Python's ordering of str: by code point, a proper prefix first.
StrLt(a, b) ==
  \E i \in 1..(Len(a) + 1) :
    /\ i <= Len(b)
    /\ \A j \in 1..(i - 1) : a[j] = b[j]
    /\ (i = Len(a) + 1 \/ a[i] < b[i])

\* sorted(list(set(...))) of a collection of str.
RECURSIVE Sorted(_)
Sorted(S) ==
  IF S = {} THEN <<>>
  ELSE LET m == CHOOSE x \in S : \A y \in S \ {x} : StrLt(x, y)
       IN  <<m>> \o Sorted(S \ {m})

\* list.index: the first position of v, 0 standing for the ValueError of a
\* value that is not in the list.
IndexOf(list, v) ==
  IF \E i \in 1..Len(list) : list[i] = v
  THEN CHOOSE i \in 1..Len(list) :
         list[i] = v /\ \A j \in 1..(i - 1) : list[j] # v
  ELSE 0

\* class UnidicPos1(UnidicField, Enum): each member name with its value, a str
\* written as the sequence of its Unicode code points.
UnidicPos1 ==
  [ noun |-> <<21517, 35422>>,
    supplementary |-> <<35036, 21161, 35352, 21495>>,
    particle |-> <<21161, 35422>>,
    verb |-> <<21205, 35422>>,
    auxiliary |-> <<21161, 21205, 35422>>,
    suffix |-> <<25509, 23614, 36766>>,
    prefix |-> <<25509, 38957, 36766>>,
    interjection |-> <<24863, 21205, 35422>>,
    adverb |-> <<21103, 35422>>,
    i_adjective |-> <<24418, 23481, 35422>>,
    na_adjective |-> <<24418, 29366, 35422>>,
    blank_space |-> <<31354, 30333>>,
    symbol |-> <<35352, 21495>>,
    conjunction |-> <<25509, 32154, 35422>>,
    pronoun |-> <<20195, 21517, 35422>>,
    prenoun_adj |-> <<36899, 20307, 35422>>,
    other |-> <<12381, 12398, 20182>> ]

\* class UnidicPos2(UnidicField, Enum): each member name with its value, a str
\* written as the sequence of its Unicode code points.
UnidicPos2 ==
  [ common_noun |-> <<26222, 36890, 21517, 35422>>,
    proper_noun |-> <<22266, 26377, 21517, 35422>>,
    character |-> <<25991, 23383>>,
    case_particle |-> <<26684, 21161, 35422>>,
    adverbial_particle |-> <<21103, 21161, 35422>>,
    auxiliary_verb_stem |-> <<21161, 21205, 35422, 35486, 24185>>,
    open_bracket |-> <<25324, 24359, 38283>>,
    close_bracket |-> <<25324, 24359, 38281>>,
    numeral |-> <<25968, 35422>>,
    filler |-> <<12501, 12451, 12521, 12540>>,
    binding_particle |-> <<20418, 21161, 35422>>,
    ending_particle |-> <<32066, 21161, 35422>>,
    irregular_verb |-> <<38750, 33258, 31435, 21487, 33021>>,
    nominal |-> <<21517, 35422, 30340>>,
    period |-> <<21477, 28857>>,
    tari |-> <<12479, 12522>>,
    comma |-> <<35501, 28857>>,
    conjunctive_particle |-> <<25509, 32154, 21161, 35422>>,
    ordinary |-> <<19968, 33324>>,
    verbal |-> <<21205, 35422, 30340>>,
    i_adjectival |-> <<24418, 23481, 35422, 30340>>,
    na_adjectival |-> <<24418, 29366, 35422, 30340>>,
    whole_phrase_particle |-> <<28310, 20307, 21161, 35422>>,
    error |-> <<65313, 65313>>,
    other |-> <<12381, 12398, 20182>> ]

\* class UnidicPos3(UnidicField, Enum): each member name with its value, a str
\* written as the sequence of its Unicode code points.
UnidicPos3 ==
  [ ordinary |-> <<19968, 33324>>,
    place_name |-> <<22320, 21517>>,
    person_name |-> <<20154, 21517>>,
    counter_suffix |-> <<21161, 25968, 35422>>,
    potential_counter_suffix |-> <<21161, 25968, 35422, 21487, 33021>>,
    potential_na_adjective |-> <<24418, 29366, 35422, 21487, 33021>>,
    potential_adverb |-> <<21103, 35422, 21487, 33021>>,
    sa_conversion |-> <<12469, 22793, 21487, 33021>>,
    sa_na_conversion |-> <<12469, 22793, 24418, 29366, 35422, 21487, 33021>>,
    emoticon |-> <<38996, 25991, 23383>>,
    other |-> <<12381, 12398, 20182>> ]

\* class UnidicPos4(UnidicField, Enum): each member name with its value, a str
\* written as the sequence of its Unicode code points.
UnidicPos4 ==
  [ country_name |-> <<22269>>,
    first_name |-> <<21517>>,
    family_name |-> <<22995>>,
    ordinary |-> <<19968, 33324>>,
    other |-> <<12381, 12398, 20182>> ]

\* class UnidicCType(UnidicField, Enum): each member name with its value, a str
\* written as the sequence of its Unicode code points.
UnidicCType ==
  [ irregular_ka |-> <<12459, 34892, 22793, 26684>>,
    irregular_sa |-> <<12469, 34892, 22793, 26684>>,
    ichidan_higher_a |-> <<19978, 19968, 27573, 45, 12450, 34892>>,
    ichidan_higher_ka |-> <<19978, 19968, 27573, 45, 12459, 34892>>,
    ichidan_higher_ga |-> <<19978, 19968, 27573, 45, 12460, 34892>>,
    ichidan_higher_za |-> <<19978, 19968, 27573, 45, 12470, 34892>>,
    ichidan_higher_ta |-> <<19978, 19968, 27573, 45, 12479, 34892>>,
    ichidan_higher_na |-> <<19978, 19968, 27573, 45, 12490, 34892>>,
    ichidan_higher_ha |-> <<19978, 19968, 27573, 45, 12495, 34892>>,
    ichidan_higher_ba |-> <<19978, 19968, 27573, 45, 12496, 34892>>,
    ichidan_higher_ma |-> <<19978, 19968, 27573, 45, 12510, 34892>>,
    ichidan_higher_ra |-> <<19978, 19968, 27573, 45, 12521, 34892>>,
    ichidan_lower_a |-> <<19979, 19968, 27573, 45, 12450, 34892>>,
    ichidan_lower_ka |-> <<19979, 19968, 27573, 45, 12459, 34892>>,
    ichidan_lower_ga |-> <<19979, 19968, 27573, 45, 12460, 34892>>,
    ichidan_lower_sa |-> <<19979, 19968, 27573, 45, 12469, 34892>>,
    ichidan_lower_za |-> <<19979, 19968, 27573, 45, 12470, 34892>>,
    ichidan_lower_ta |-> <<19979, 19968, 27573, 45, 12479, 34892>>,
    ichidan_lower_da |-> <<19979, 19968, 27573, 45, 12480, 34892>>,
    ichidan_lower_na |-> <<19979, 19968, 27573, 45, 12490, 34892>>,
    ichidan_lower_ha |-> <<19979, 19968, 27573, 45, 12495, 34892>>,
    ichidan_lower_ba |-> <<19979, 19968, 27573, 45, 12496, 34892>>,
    ichidan_lower_ma |-> <<19979, 19968, 27573, 45, 12510, 34892>>,
    ichidan_lower_ra |-> <<19979, 19968, 27573, 45, 12521, 34892>>,
    godan_ka |-> <<20116, 27573, 45, 12459, 34892>>,
    godan_ga |-> <<20116, 27573, 45, 12460, 34892>>,
    godan_sa |-> <<20116, 27573, 45, 12469, 34892>>,
    godan_ta |-> <<20116, 27573, 45, 12479, 34892>>,
    godan_na |-> <<20116, 27573, 45, 12490, 34892>>,
    godan_ba |-> <<20116, 27573, 45, 12496, 34892>>,
    godan_ma |-> <<20116, 27573, 45, 12510, 34892>>,
    godan_ra |-> <<20116, 27573, 45, 12521, 34892>>,
    godan_wa |-> <<20116, 27573, 45, 12527, 12450, 34892>>,
    auxiliary_ja |-> <<21161, 21205, 35422, 45, 12472, 12515>>,
    auxiliary_ta |-> <<21161, 21205, 35422, 45, 12479>>,
    auxiliary_tai |-> <<21161, 21205, 35422, 45, 12479, 12452>>,
    auxiliary_da |-> <<21161, 21205, 35422, 45, 12480>>,
    auxiliary_dosu |-> <<21161, 21205, 35422, 45, 12489, 12473>>,
    auxiliary_desu |-> <<21161, 21205, 35422, 45, 12487, 12473>>,
    auxiliary_nai |-> <<21161, 21205, 35422, 45, 12490, 12452>>,
    auxiliary_nanda |-> <<21161, 21205, 35422, 45, 12490, 12531, 12480>>,
    auxiliary_nu |-> <<21161, 21205, 35422, 45, 12492>>,
    auxiliary_mai |-> <<21161, 21205, 35422, 45, 12510, 12452>>,
    auxiliary_masu |-> <<21161, 21205, 35422, 45, 12510, 12473>>,
    auxiliary_ya |-> <<21161, 21205, 35422, 45, 12516>>,
    auxiliary_rashii |-> <<21161, 21205, 35422, 45, 12521, 12471, 12452>>,
    auxiliary_rare |-> <<21161, 21205, 35422, 45, 12524, 12523>>,
    auxiliary_hin |-> <<21161, 21205, 35422, 45, 12498, 12531>>,
    auxiliary_hen |-> <<21161, 21205, 35422, 45, 12504, 12531>>,
    auxiliary_yan |-> <<21161, 21205, 35422, 45, 12516, 12531>>,
    auxiliary_nsu |-> <<21161, 21205, 35422, 45, 12531, 12473>>,
    i_adjective |-> <<24418, 23481, 35422>>,
    text_irregular_sa |-> <<25991, 35486, 12469, 34892, 22793, 26684>>,
    text_irregular_ra |-> <<25991, 35486, 12521, 34892, 22793, 26684>>,
    text_nidan_lower_ra |-> <<25991, 35486, 19979, 20108, 27573, 45, 12521, 34892>>,
    text_nidan_lower_a |-> <<25991, 35486, 19979, 20108, 27573, 45, 12450, 34892>>,
    text_nidan_lower_sa |-> <<25991, 35486, 19979, 20108, 27573, 45, 12469, 34892>>,
    text_nidan_lower_da |-> <<25991, 35486, 19979, 20108, 27573, 45, 12480, 34892>>,
    text_auxiliary_ki |-> <<25991, 35486, 21161, 21205, 35422, 45, 12461>>,
    text_auxiliary_gotoshi |-> <<25991, 35486, 21161, 21205, 35422, 45, 12468, 12488, 12471>>,
    text_auxiliary_zu |-> <<25991, 35486, 21161, 21205, 35422, 45, 12474>>,
    text_auxiliary_tari_complete |-> <<25991, 35486, 21161, 21205, 35422, 45, 12479, 12522, 45, 23436, 20102>>,
    text_auxiliary_tari_assertion |-> <<25991, 35486, 21161, 21205, 35422, 45, 12479, 12522, 45, 26029, 23450>>,
    text_auxiliary_nari_assertion |-> <<25991, 35486, 21161, 21205, 35422, 45, 12490, 12522, 45, 26029, 23450>>,
    text_auxiliary_beshi |-> <<25991, 35486, 21161, 21205, 35422, 45, 12505, 12471>>,
    text_auxiliary_mu |-> <<25991, 35486, 21161, 21205, 35422, 45, 12512>>,
    text_auxiliary_ri |-> <<25991, 35486, 21161, 21205, 35422, 45, 12522>>,
    text_auxiliary_keri |-> <<25991, 35486, 21161, 21205, 35422, 45, 12465, 12522>>,
    text_auxiliary_maji |-> <<25991, 35486, 21161, 21205, 35422, 45, 12510, 12472>>,
    text_yondan_ha |-> <<25991, 35486, 22235, 27573, 45, 12495, 34892>>,
    text_yondan_sa |-> <<25991, 35486, 22235, 27573, 45, 12469, 34892>>,
    text_yondan_ra |-> <<25991, 35486, 22235, 27573, 45, 12521, 34892>>,
    text_yondan_ka |-> <<25991, 35486, 22235, 27573, 45, 12459, 34892>>,
    text_yondan_ta |-> <<25991, 35486, 22235, 27573, 45, 12479, 34892>>,
    text_yondan_ba |-> <<25991, 35486, 22235, 27573, 45, 12496, 34892>>,
    text_yondan_ma |-> <<25991, 35486, 22235, 27573, 45, 12510, 34892>>,
    text_i_adjective_ku |-> <<25991, 35486, 24418, 23481, 35422, 45, 12463>>,
    text_i_adjective_shiku |-> <<25991, 35486, 24418, 23481, 35422, 45, 12471, 12463>>,
    unchanging_type |-> <<28961, 22793, 21270, 22411>>,
    special_type |-> <<29305, 27530, 22411>>,
    other |-> <<12381, 12398, 20182>> ]

\* class UnidicCForm(UnidicField, Enum): each member name with its value, a str
\* written as the sequence of its Unicode code points.
UnidicCForm ==
  [ conditional_general |-> <<20206, 23450, 24418, 45, 19968, 33324>>,
    conditional_fusion |-> <<20206, 23450, 24418, 45, 34701, 21512>>,
    realis_general |-> <<24050, 28982, 24418, 45, 19968, 33324>>,
    realis_auxiliary |-> <<24050, 28982, 24418, 45, 35036, 21161>>,
    imperative |-> <<21629, 20196, 24418>>,
    volitional_nominal |-> <<24847, 24535, 25512, 37327, 24418>>,
    imperfective_sa |-> <<26410, 28982, 24418, 45, 12469>>,
    imperfective_se |-> <<26410, 28982, 24418, 45, 12475>>,
    imperfective_general |-> <<26410, 28982, 24418, 45, 19968, 33324>>,
    imperfective_nasal_n |-> <<26410, 28982, 24418, 45, 25765, 38899, 20415>>,
    imperfective_auxiliary |-> <<26410, 28982, 24418, 45, 35036, 21161>>,
    conclusive_general |-> <<32066, 27490, 24418, 45, 19968, 33324>>,
    conclusive_nasal_t |-> <<32066, 27490, 24418, 45, 20419, 38899, 20415>>,
    conclusive_nasal_n |-> <<32066, 27490, 24418, 45, 25765, 38899, 20415>>,
    conclusive_auxiliary |-> <<32066, 27490, 24418, 45, 35036, 21161>>,
    conclusive_fusion |-> <<32066, 27490, 24418, 45, 34701, 21512>>,
    stem_sa |-> <<35486, 24185, 45, 12469>>,
    stem_general |-> <<35486, 24185, 45, 19968, 33324>>,
    attributive_general |-> <<36899, 20307, 24418, 45, 19968, 33324>>,
    attributive_nasal_n |-> <<36899, 20307, 24418, 45, 25765, 38899, 20415>>,
    attributive_omission |-> <<36899, 20307, 24418, 45, 30465, 30053>>,
    attributive_auxiliary |-> <<36899, 20307, 24418, 45, 35036, 21161>>,
    attrivutive_i |-> <<36899, 20307, 24418, 45, 12452, 38899, 20415>>,
    continuative_i |-> <<36899, 29992, 24418, 45, 12452, 38899, 20415>>,
    continuative_u |-> <<36899, 29992, 24418, 45, 12454, 38899, 20415>>,
    continuative_ni |-> <<36899, 29992, 24418, 45, 12491>>,
    continuative_to |-> <<36899, 29992, 24418, 45, 12488>>,
    continuative_general |-> <<36899, 29992, 24418, 45, 19968, 33324>>,
    continuative_nasal_n |-> <<36899, 29992, 24418, 45, 25765, 38899, 20415>>,
    continuative_nasal_t |-> <<36899, 29992, 24418, 45, 20419, 38899, 20415>>,
    continuative_omission |-> <<36899, 29992, 24418, 45, 30465, 30053>>,
    continuative_auxiliary |-> <<36899, 29992, 24418, 45, 35036, 21161>>,
    continuative_fusion |-> <<36899, 29992, 24418, 45, 34701, 21512>>,
    ku_form |-> <<12463, 35486, 27861>>,
    other |-> <<12381, 12398, 20182>> ]

\* class UnidicGoshu(UnidicField, Enum): each member name with its value, a str
\* written as the sequence of its Unicode code points.
UnidicGoshu ==
  [ japan |-> <<21644>>,
    solid |-> <<22266>>,
    china |-> <<28450>>,
    foreign |-> <<22806>>,
    mixed |-> <<28151>>,
    symbol |-> <<35352, 21495>>,
    unknown |-> <<19981, 26126>>,
    other |-> <<12381, 12398, 20182>> ]

\* class UnidicType(UnidicField, Enum): each member name with its value, a str
\* written as the sequence of its Unicode code points.
UnidicType ==
  [ human_counter |-> <<20307>>,
    binding_particle |-> <<20418, 21161>>,
    support |-> <<35036, 21161>>,
    country |-> <<22269>>,
    case_making_particle |-> <<26684, 21161>>,
    auxiliary |-> <<21161, 21205>>,
    use |-> <<29992>>,
    proper_name |-> <<22266, 26377, 21517>>,
    person_name |-> <<20154, 21517>>,
    place_name |-> <<22320, 21517>>,
    symbol |-> <<35352, 21495>>,
    number |-> <<25968>>,
    supporter |-> <<28310, 21161>>,
    conjunctive |-> <<25509, 21161>>,
    suffix1 |-> <<25509, 23614, 29992>>,
    suffix2 |-> <<25509, 23614, 30456>>,
    suffix3 |-> <<25509, 23614, 20307>>,
    assisting_particle |-> <<21103, 21161>>,
    counter |-> <<21161, 25968>>,
    first_name |-> <<21517>>,
    family_name |-> <<22995>>,
    prefix |-> <<25509, 38957>>,
    ending_particle |-> <<32066, 21161>>,
    aspect |-> <<30456>>,
    other |-> <<20182>> ]
\* cls.__members__.values() of an Enum class.
Values(enum) == {enum[n] : n \in DOMAIN enum}

\* The eight Enum subclasses of UnidicField, by class name.
EnumClasses ==
  {"UnidicPos1", "UnidicPos2", "UnidicPos3", "UnidicPos4",
   "UnidicCType", "UnidicCForm", "UnidicGoshu", "UnidicType"}

\* Mutant of the lookup by value: every class also answers to the labels of
\* UnidicPos4.
Members_shared(cls) ==
  CASE cls = "UnidicPos1" -> Values(UnidicPos1) \cup Values(UnidicPos4)
    [] cls = "UnidicPos2" -> Values(UnidicPos2) \cup Values(UnidicPos4)
    [] cls = "UnidicPos3" -> Values(UnidicPos3) \cup Values(UnidicPos4)
    [] cls = "UnidicPos4" -> Values(UnidicPos4)
    [] cls = "UnidicCType" -> Values(UnidicCType) \cup Values(UnidicPos4)
    [] cls = "UnidicCForm" -> Values(UnidicCForm) \cup Values(UnidicPos4)
    [] cls = "UnidicGoshu" -> Values(UnidicGoshu) \cup Values(UnidicPos4)
    [] cls = "UnidicType" -> Values(UnidicType) \cup Values(UnidicPos4)
    [] OTHER -> {}

Members(cls) ==
  CASE cls = "UnidicPos1" -> Values(UnidicPos1)
    [] cls = "UnidicPos2" -> Values(UnidicPos2)
    [] cls = "UnidicPos3" -> Values(UnidicPos3)
    [] cls = "UnidicPos4" -> Values(UnidicPos4)
    [] cls = "UnidicCType" -> Values(UnidicCType)
    [] cls = "UnidicCForm" -> Values(UnidicCForm)
    [] cls = "UnidicGoshu" -> Values(UnidicGoshu)
    [] cls = "UnidicType" -> Values(UnidicType)
    [] OTHER -> {}

\* Mutant of the constructor call: UnidicGeneralString refuses every value as
\* an Enum without members would.
ClsRaises_general(cls, field) == field \notin Members(cls)

\* cls(field) raises ValueError: an Enum class called with a value that no
\* member has.  UnidicGeneralString(field) is str(field) and never raises.
ClsRaises(cls, field) == cls \in EnumClasses /\ field \notin Members(cls)

NoError == [type |-> "", cls |-> "", field |-> None]

\* Mutants of UnidicField.from_fugashi: the except branch that returns the
\* raw value whatever the mode, and the body without the test for "*".
UnidicField_from_fugashi_swallow(cls, field, analysis_mode) ==
  IF field = Sentinel \/ field = None THEN
    [value |-> None, raw |-> None, raised |-> FALSE, err |-> NoError]
  ELSE IF ~ClsRaises(cls, field) THEN
    [value |-> field, raw |-> None, raised |-> FALSE, err |-> NoError]
  ELSE
    [value |-> None, raw |-> field, raised |-> FALSE, err |-> NoError]

UnidicField_from_fugashi_no_sentinel(cls, field, analysis_mode) ==
  IF field = None THEN
    [value |-> None, raw |-> None, raised |-> FALSE, err |-> NoError]
  ELSE IF ~ClsRaises(cls, field) THEN
    [value |-> field, raw |-> None, raised |-> FALSE, err |-> NoError]
  ELSE IF analysis_mode THEN
    [value |-> None, raw |-> field, raised |-> FALSE, err |-> NoError]
  ELSE
    [value |-> None, raw |-> None, raised |-> TRUE,
     err |-> [type |-> "ValueError", cls |-> cls, field |-> field]]

\* UnidicField.from_fugashi: (value, raw) of the returned tuple, or the
\* ValueError "Invalid value for {cls.__name__}: {field}".
UnidicField_from_fugashi(cls, field, analysis_mode) ==
  IF field = Sentinel THEN
    [value |-> None, raw |-> None, raised |-> FALSE, err |-> NoError]
  ELSE IF field = None THEN
    [value |-> None, raw |-> None, raised |-> FALSE, err |-> NoError]
  ELSE IF ~ClsRaises(cls, field) THEN
    [value |-> field, raw |-> None, raised |-> FALSE, err |-> NoError]
  ELSE IF analysis_mode THEN
    [value |-> None, raw |-> field, raised |-> FALSE, err |-> NoError]
  ELSE
    [value |-> None, raw |-> None, raised |-> TRUE,
     err |-> [type |-> "ValueError", cls |-> cls, field |-> field]]

is_onehot_encodeable(cls) == cls \in EnumClasses

UnidicPos1_get_onehot_order == Sorted(Values(UnidicPos1))

UnidicPos2_get_onehot_order == Sorted(Values(UnidicPos2))

\* Mutant of UnidicPos3.get_onehot_order: the list without its last entry.
UnidicPos3_get_onehot_order_short ==
  << UnidicPos3.ordinary, UnidicPos3.place_name, UnidicPos3.person_name,
     UnidicPos3.counter_suffix, UnidicPos3.potential_counter_suffix,
     UnidicPos3.potential_na_adjective, UnidicPos3.potential_adverb,
     UnidicPos3.sa_conversion, UnidicPos3.sa_na_conversion,
     UnidicPos3.emoticon >>

UnidicPos3_get_onehot_order ==
  << UnidicPos3.ordinary, UnidicPos3.place_name, UnidicPos3.person_name,
     UnidicPos3.counter_suffix, UnidicPos3.potential_counter_suffix,
     UnidicPos3.potential_na_adjective, UnidicPos3.potential_adverb,
     UnidicPos3.sa_conversion, UnidicPos3.sa_na_conversion,
     UnidicPos3.emoticon, UnidicPos3.other >>

UnidicPos4_get_onehot_order ==
  << UnidicPos4.country_name, UnidicPos4.first_name, UnidicPos4.family_name,
     UnidicPos4.ordinary, UnidicPos4.other >>

UnidicCType_get_onehot_order == Sorted(Values(UnidicCType))

UnidicCForm_get_onehot_order == Sorted(Values(UnidicCForm))

UnidicGoshu_get_onehot_order == Sorted(Values(UnidicGoshu))

UnidicType_get_onehot_order == Sorted(Values(UnidicType))

\* cls.get_onehot_order() (None, here the empty list, for UnidicGeneralString).
get_onehot_order(cls) ==
  CASE cls = "UnidicPos1" -> UnidicPos1_get_onehot_order
    [] cls = "UnidicPos2" -> UnidicPos2_get_onehot_order
    [] cls = "UnidicPos3" -> UnidicPos3_get_onehot_order
    [] cls = "UnidicPos4" -> UnidicPos4_get_onehot_order
    [] cls = "UnidicCType" -> UnidicCType_get_onehot_order
    [] cls = "UnidicCForm" -> UnidicCForm_get_onehot_order
    [] cls = "UnidicGoshu" -> UnidicGoshu_get_onehot_order
    [] cls = "UnidicType" -> UnidicType_get_onehot_order
    [] OTHER -> <<>>

\* np.zeros(n, dtype=np.int8)
Zeros(n) == [i \in 1..n |-> 0]

\* UnidicField.to_onehot raises: RuntimeError for a class that is not
\* encodeable, ValueError from list.index for a value not in the order.
UnidicField_to_onehot_raises(cls, self) ==
  \/ ~is_onehot_encodeable(cls)
  \/ IndexOf(get_onehot_order(cls), self) = 0

\* Mutant of UnidicField.to_onehot: the 1 stored one place too far.
UnidicField_to_onehot_shifted(cls, self) ==
  LET order == get_onehot_order(cls)
      at == IndexOf(order, self) + 1
  IN  [i \in 1..Len(order) |-> IF i = at THEN 1 ELSE 0]

\* UnidicField.to_onehot: zeros of the order's length with a 1 stored at the
\* index of self.value.
UnidicField_to_onehot(cls, self) ==
  LET order == get_onehot_order(cls)
      at == IndexOf(order, self)
  IN  [i \in 1..Len(order) |-> IF i = at THEN 1 ELSE 0]

\* The fields of UnidicFeatures29 declared `X | None` with X an Enum class, in
\* the order to_onehot stacks their rows, and the class of each.
ClosedFields ==
  <<"pos1", "pos2", "pos3", "pos4", "cType", "cForm", "goshu", "type">>

FieldClass(f) ==
  CASE f = "pos1" -> "UnidicPos1"
    [] f = "pos2" -> "UnidicPos2"
    [] f = "pos3" -> "UnidicPos3"
    [] f = "pos4" -> "UnidicPos4"
    [] f = "cType" -> "UnidicCType"
    [] f = "cForm" -> "UnidicCForm"
    [] f = "goshu" -> "UnidicGoshu"
    [] f = "type" -> "UnidicType"
    [] OTHER -> "UnidicGeneralString"

\* The fields declared `str`.
StrFields ==
  {"lForm", "lemma", "orth", "pron", "orthBase", "pronBase",
   "kana", "kanaBase", "form", "formBase", "aType", "aConType"}

\* The fields declared `UnidicGeneralString | None`.
GeneralFields ==
  {"iType", "iForm", "fType", "fForm", "iConType", "fConType", "aModType"}

\* The fields declared `int`.
IntFields == {"lid", "lemma_id"}

Range(s) == {s[i] : i \in 1..Len(s)}

FieldNames == Range(ClosedFields) \cup StrFields \cup GeneralFields \cup IntFields

\* A keyword argument of an int field: a Python int or what the tokenizer
\* gave (a str or None).
IntArg(n) == [is_int |-> TRUE, n |-> n, s |-> None]

RawArg(s) == [is_int |-> FALSE, n |-> 0, s |-> s]

IsDigits(s) == s # None /\ Len(s) > 0 /\ \A i \in 1..Len(s) : s[i] \in 48..57

RECURSIVE ParseInt(_)
ParseInt(s) ==
  IF Len(s) = 0 THEN 0
  ELSE 10 * ParseInt(SubSeq(s, 1, Len(s) - 1)) + (s[Len(s)] - 48)

\* Validation of one int field: an int as it is, a str of decimal digits
\* parsed, anything else (None, any other str of the inputs used) refused.
IntFieldValid(a) == a.is_int \/ IsDigits(a.s)

IntFieldValue(a) == IF a.is_int THEN a.n ELSE ParseInt(a.s)

\* cls(**kwargs) raises ValidationError: a closed field must be None or a
\* member of its class, a str field a str, an int field an int or numeric
\* str; a UnidicGeneralString field takes None or any str.
ValidationFails(kwargs) ==
  \/ \E f \in Range(ClosedFields) :
       kwargs[f] # None /\ kwargs[f] \notin Members(FieldClass(f))
  \/ \E f \in StrFields : kwargs[f] = None
  \/ \E f \in IntFields : ~IntFieldValid(kwargs[f])

\* The UnidicFeatures29 object cls(**kwargs) builds.
Validated(kwargs) ==
  [f \in FieldNames |->
     IF f \in IntFields THEN IntFieldValue(kwargs[f]) ELSE kwargs[f]]

\* The value standing in a result that carries no record.
NoRecord == [f \in FieldNames |-> None]

\* analysis_dict: a dict of sets by field name, or None.
NoDict == [is_none |-> TRUE, items |-> [k \in {} |-> {}]]

EmptyDict == [is_none |-> FALSE, items |-> [k \in {} |-> {}]]

\* Mutants of the update of analysis_dict: the set replaced by the new value
\* alone, and the set of a key that is present left as it is.
DictAdd_overwrite(d, key, raw_field) ==
  [d EXCEPT !.items =
     [k \in (DOMAIN d.items) \cup {key} |->
        IF k = key THEN {raw_field} ELSE d.items[k]]]

DictAdd_keep_first(d, key, raw_field) ==
  [d EXCEPT !.items =
     [k \in (DOMAIN d.items) \cup {key} |->
        IF k \in DOMAIN d.items THEN d.items[k] ELSE {raw_field}]]

\* analysis_dict[key] = analysis_dict.get(key, set()) | {raw_field}
DictAdd(d, key, raw_field) ==
  LET old == IF key \in DOMAIN d.items THEN d.items[key] ELSE {}
  IN  [d EXCEPT !.items =
         [k \in (DOMAIN d.items) \cup {key} |->
            IF k = key THEN old \cup {raw_field} ELSE d.items[k]]]

\* The keyword arguments of the strict branch (analysis_dict is None).
StrictKwargs(feature) ==
  [f \in FieldNames |->
     IF f \in StrFields THEN
       (IF feature[f] # None THEN feature[f] ELSE <<>>)
     ELSE IF f \in IntFields THEN
       (IF feature[f] # None THEN RawArg(feature[f]) ELSE IntArg(0))
     ELSE UnidicField_from_fugashi(FieldClass(f), feature[f], FALSE).value]

\* The fields the strict branch classifies, in the order the keyword
\* arguments are evaluated: the first that raises ends the call.
StrictOrder ==
  <<"pos1", "pos2", "pos3", "pos4", "cType", "cForm", "goshu",
    "iType", "iForm", "fType", "fForm", "iConType", "fConType",
    "type", "aModType">>

\* The fields the analysis branch classifies, in statement order.
AnalysisOrder ==
  <<"pos1", "pos2", "pos3", "pos4", "cType", "cForm", "goshu",
    "iType", "iForm", "fType", "fForm", "iConType", "fConType",
    "type", "aModType">>

\* cls_dict of the analysis branch.
AnalysisKwargs(feature) ==
  [f \in FieldNames |->
     IF f \in StrFields THEN feature[f]
     ELSE IF f \in IntFields THEN RawArg(feature[f])
     ELSE UnidicField_from_fugashi(FieldClass(f), feature[f], TRUE).value]

\* Mutant of the analysis branch: the statements after the first unmatched
\* value are not run.
RECURSIVE AnalysisCollect_first_miss(_, _, _)
AnalysisCollect_first_miss(feature, d, i) ==
  IF i > Len(AnalysisOrder) THEN d
  ELSE LET f == AnalysisOrder[i]
           raw_field == UnidicField_from_fugashi(FieldClass(f), feature[f], TRUE).raw
       IN  IF raw_field # None THEN DictAdd(d, f, raw_field)
           ELSE AnalysisCollect_first_miss(feature, d, i + 1)

\* analysis_dict after the statements of the analysis branch from the i-th
\* classified field on: every returned raw_field that is not None is added
\* under the field's name.
RECURSIVE AnalysisCollect(_, _, _)
AnalysisCollect(feature, d, i) ==
  IF i > Len(AnalysisOrder) THEN d
  ELSE LET f == AnalysisOrder[i]
           raw_field == UnidicField_from_fugashi(FieldClass(f), feature[f], TRUE).raw
       IN  AnalysisCollect(feature,
                           IF raw_field # None THEN DictAdd(d, f, raw_field) ELSE d,
                           i + 1)

\* UnidicFeatures29.from_fugashi: the record, None (is_none), or the
\* exception raised, and analysis_dict after the call.
UnidicFeatures29_from_fugashi(feature, analysis_dict) ==
  IF analysis_dict.is_none THEN
    LET failing == {i \in 1..Len(StrictOrder) :
                      UnidicField_from_fugashi(FieldClass(StrictOrder[i]),
                                               feature[StrictOrder[i]], FALSE).raised}
    IN  IF failing # {} THEN
          LET i == CHOOSE j \in failing : \A k \in failing : j <= k
          IN  [raised |-> TRUE, is_none |-> FALSE, rec |-> NoRecord,
               err |-> UnidicField_from_fugashi(FieldClass(StrictOrder[i]),
                                                feature[StrictOrder[i]], FALSE).err,
               analysis_dict |-> analysis_dict]
        ELSE IF ValidationFails(StrictKwargs(feature)) THEN
          [raised |-> TRUE, is_none |-> FALSE, rec |-> NoRecord,
           err |-> [type |-> "ValidationError", cls |-> "UnidicFeatures29",
                    field |-> None],
           analysis_dict |-> analysis_dict]
        ELSE
          [raised |-> FALSE, is_none |-> FALSE,
           rec |-> Validated(StrictKwargs(feature)), err |-> NoError,
           analysis_dict |-> analysis_dict]
  ELSE
    LET d == AnalysisCollect(feature, analysis_dict, 1)
    IN  IF ValidationFails(AnalysisKwargs(feature)) THEN
          [raised |-> FALSE, is_none |-> TRUE, rec |-> NoRecord,
           err |-> NoError, analysis_dict |-> d]
        ELSE
          [raised |-> FALSE, is_none |-> FALSE,
           rec |-> Validated(AnalysisKwargs(feature)), err |-> NoError,
           analysis_dict |-> d]

\* The rows to_onehot appends, one per closed field in order: the field's
\* one-hot row, or zeros of its order's length when the attribute is None.
OnehotRows(self) ==
  [r \in 1..Len(ClosedFields) |->
     LET f == ClosedFields[r]
     IN  IF self[f] # None
         THEN UnidicField_to_onehot(FieldClass(f), self[f])
         ELSE Zeros(Len(get_onehot_order(FieldClass(f))))]

\* Mutant of max_length: the length of the last order instead of the
\* running maximum.
MaxLength_last(r) ==
  IF r = 0 THEN 0 ELSE Len(get_onehot_order(FieldClass(ClosedFields[r])))

\* max_length of to_onehot: the running maximum of the orders' lengths.
RECURSIVE MaxLength(_)
MaxLength(r) ==
  IF r = 0 THEN 0
  ELSE LET n == Len(get_onehot_order(FieldClass(ClosedFields[r])))
           m == MaxLength(r - 1)
       IN  IF n > m THEN n ELSE m

\* Mutant of the padding: the zeros put before the row, np.pad(row, (n, 0)).
Pad_left(row, n) == [i \in 1..(Len(row) + n) |-> IF i > n THEN row[i - n] ELSE 0]

\* np.pad(row, (0, n), "constant")
Pad(row, n) == [i \in 1..(Len(row) + n) |-> IF i <= Len(row) THEN row[i] ELSE 0]

\* UnidicFeatures29.to_onehot raises when a field's to_onehot does.
UnidicFeatures29_to_onehot_raises(self) ==
  \E r \in 1..Len(ClosedFields) :
    /\ self[ClosedFields[r]] # None
    /\ UnidicField_to_onehot_raises(FieldClass(ClosedFields[r]), self[ClosedFields[r]])

\* UnidicFeatures29.to_onehot: every row padded to max_length, stacked.
UnidicFeatures29_to_onehot(self) ==
  LET onehot == OnehotRows(self)
      max_length == MaxLength(Len(ClosedFields))
  IN  [r \in 1..Len(onehot) |-> Pad(onehot[r], max_length - Len(onehot[r]))]

\* ndarray.shape of a stacked matrix.
Shape(m) == <<Len(m), IF Len(m) = 0 THEN 0 ELSE Len(m[1])>>

\* ---------------------------------------------------------------------
\* numpy arithmetic of parse_line

\* int8 addition wraps modulo 2^8.
Wrap8(x) == ((x + 128) % 256) - 128

\* a + b of two int8 matrices of one shape.
AddInt8(a, b) ==
  [r \in 1..Len(a) |-> [c \in 1..Len(a[r]) |-> Wrap8(a[r][c] + b[r][c])]]

\* sum(grammar_slices) over the first n slices: 0 + s[1] + ... + s[n], left
\* to right, each partial sum an int8 matrix.
RECURSIVE SumSlices(_, _)
SumSlices(s, n) ==
  IF n = 1 THEN s[1] ELSE AddInt8(SumSlices(s, n - 1), s[n])

\* The addition of two arrays raises when their shapes differ.
SumRaises(s) == \E i, j \in 1..Len(s) : Shape(s[i]) # Shape(s[j])

RECURSIVE Pow2(_)
Pow2(n) == IF n = 0 THEN 1 ELSE 2 * Pow2(n - 1)

\* The binary exponent of a / q (a, q > 0) from e downwards, not below the
\* float16 subnormal exponent -14.
RECURSIVE Exponent(_, _, _)
Exponent(a, q, e) ==
  IF e = -14 THEN e
  ELSE IF (IF e >= 0 THEN q * Pow2(e) <= a ELSE q <= a * Pow2(-e)) THEN e
  ELSE Exponent(a, q, e - 1)

\* n / q rounded to the nearest integer, ties to even.
RoundHalfEven(n, q) ==
  LET lo == n \div q
      twice == 2 * (n % q)
  IN  IF twice < q THEN lo
      ELSE IF twice > q THEN lo + 1
      ELSE IF lo % 2 = 0 THEN lo ELSE lo + 1

\* Mutant of the division: floor division, grammar_sum // len(grammar_slices).
Float16Div_floor(p, q) == (p \div q) * Pow2(24)

\* (p / q).astype(np.float16) in units of 2^-24: the quotient rounded to the
\* 11 significant bits of a float16, ties to even.  (numpy divides in
\* float64 first; for the small p and q of a line that intermediate rounding
\* never moves a quotient across a float16 rounding boundary.)
Float16Div(p, q) ==
  IF p = 0 THEN 0
  ELSE LET a == IF p < 0 THEN -p ELSE p
           e == Exponent(a, q, 15)
           m == RoundHalfEven(a * Pow2(10 - e), q)
           v == m * Pow2(e + 14)
       IN  IF p < 0 THEN -v ELSE v

\* 1.0 as a float16, in units of 2^-24.
One == Pow2(24)

\* The shape parse_line hard-codes for a line without words.
FingerprintRows == 8

\* Mutant of the hard-coded width: the width before the last category of
\* UnidicCType was added.
FingerprintCols_stale == Len(UnidicCType_get_onehot_order) - 1

FingerprintCols == 81

\* Mutant of parse_line: the zero matrix also for a single slice.
Fingerprint_single_as_empty(kept) ==
  IF Len(kept) <= 1 THEN
    [r \in 1..FingerprintRows |-> [c \in 1..FingerprintCols |-> 0]]
  ELSE
    LET grammar_sum == SumSlices(kept, Len(kept))
    IN  [r \in 1..Len(grammar_sum) |->
          [c \in 1..Len(grammar_sum[r]) |->
             Float16Div(grammar_sum[r][c], Len(kept))]]

\* grammar_fingerprint.astype(np.float16) of parse_line for the slices that
\* are not None.
Fingerprint(kept) ==
  IF Len(kept) = 0 THEN
    [r \in 1..FingerprintRows |-> [c \in 1..FingerprintCols |-> 0]]
  ELSE IF Len(kept) = 1 THEN
    [r \in 1..Len(kept[1]) |->
       [c \in 1..Len(kept[1][r]) |-> Float16Div(kept[1][r][c], 1)]]
  ELSE
    LET grammar_sum == SumSlices(kept, Len(kept))
    IN  [r \in 1..Len(grammar_sum) |->
          [c \in 1..Len(grammar_sum[r]) |->
             Float16Div(grammar_sum[r][c], Len(kept))]]

\* [s for s in grammar_slices if s is not None]
NotNone(s) == s # None

Kept(slices) == SelectSeq(slices, NotNone)

\* ---------------------------------------------------------------------
\* pydantic models of scripts.py

\* The declared fields of ScriptLine and of ParsedScript, all required.
ScriptLine_fields == {"text", "vocab_breakdown"}

ParsedScript_fields == {"metadata", "lines"}

\* Model(**kwargs) of a BaseModel with the default configuration: a missing
\* required field raises ValidationError, a keyword that is no field is
\* ignored, and the object holds the declared fields only.
ModelRaises(fields, kwargs) == \E f \in fields : f \notin DOMAIN kwargs

ModelObject(fields, kwargs) == [f \in fields \cap DOMAIN kwargs |-> kwargs[f]]

\* ---------------------------------------------------------------------
\* Inputs: what the tokenizer hands to the parser

\* The longest script text, the most words of a freely composed line, and
\* the length of the long line of one repeated word.
MaxScriptLen == 1

MaxWords == 2

LongLen == 128

\* Raw strings that are no member of any class and not the sentinel.
Junk == <<65313, 65313, 65>>

Digits12 == <<49, 50>>

Letters == <<97, 98>>

\* A word with every field present: a native common noun.
Noun ==
  [f \in FieldNames |->
     CASE f = "pos1" -> UnidicPos1.noun
       [] f = "pos2" -> UnidicPos2.common_noun
       [] f = "pos3" -> UnidicPos3.ordinary
       [] f = "goshu" -> UnidicGoshu.japan
       [] f = "type" -> UnidicType.human_counter
       [] f \in {"pos4", "cType", "cForm"} -> Sentinel
       [] f \in GeneralFields -> Sentinel
       [] f \in IntFields -> Digits12
       [] OTHER -> Letters]

\* A godan verb in its conclusive form.
Verb ==
  [Noun EXCEPT !["pos1"] = UnidicPos1.verb,
               !["pos2"] = UnidicPos2.ordinary,
               !["pos3"] = Sentinel,
               !["cType"] = UnidicCType.godan_ka,
               !["cForm"] = UnidicCForm.conclusive_general]

\* A word whose pos1 and cType are outside the closed sets.
Unknown == [Noun EXCEPT !["pos1"] = Junk, !["cType"] = Letters]

\* A word the dictionary does not know: the lemma fields are absent.
Unlisted == [Verb EXCEPT !["lForm"] = None, !["lemma"] = None, !["goshu"] = None]

\* A word whose pos1 and goshu are outside the closed sets, with another
\* pos1 than Unknown.
Foreign == [Noun EXCEPT !["pos1"] = Letters, !["goshu"] = Junk]

\* The raw values tried in closed field f: the members of its class, the
\* members of UnidicPos4 (labels that some classes share and others do not
\* have), the sentinel, None, the empty str and strings that are no member.
RawValues(f) ==
  Members(FieldClass(f)) \cup Members("UnidicPos4")
    \cup {Sentinel, None, <<>>, Junk, Letters, <<42, 42>>}

\* Every raw value tried in the other fields.
FreeValues == {None, Sentinel, <<>>, Letters, Digits12}

\* The words of one-word lines: Noun with one field replaced.
Variants ==
  UNION {{[Noun EXCEPT ![f] = v] : v \in RawValues(f)} : f \in Range(ClosedFields)}
    \cup {[Noun EXCEPT ![f] = v] :
            f \in StrFields \cup GeneralFields \cup IntFields, v \in FreeValues}

\* The words of composed lines.
CoreWords == {Noun, Verb, Unknown, Unlisted}

RECURSIVE SeqsUpTo(_, _)
SeqsUpTo(S, n) ==
  IF n = 0 THEN {<<>>}
  ELSE LET shorter == SeqsUpTo(S, n - 1)
       IN  shorter \cup {Append(s, x) : s \in {t \in shorter : Len(t) = n - 1}, x \in S}

\* Lines of words with different unmatched values in one field, in both
\* orders; a line of three words with the lemma fields of the middle one
\* absent; and that word before a long run of one word.
MixedLines ==
  {<<Unknown, Foreign>>, <<Foreign, Unknown>>, <<Noun, Unlisted, Verb>>,
   <<Unlisted>> \o [i \in 1..LongLen |-> Noun]}

\* The token lists the tagger returns for a text that is not empty.
TokenLists ==
  SeqsUpTo(CoreWords, MaxWords)
    \cup {<<w>> : w \in Variants}
    \cup {[i \in 1..LongLen |-> w] : w \in {Noun}}
    \cup MixedLines

\* self.tagger(line): the tokenizer is outside this code; an empty text has
\* no tokens, any other text may tokenize to any of the lists above.
Tagger(line) == IF line = <<>> THEN {<<>>} ELSE TokenLists

NewLine == 10

Glyph == 29483

\* script.script: the raw text of a script.
Scripts == SeqsUpTo({NewLine, Glyph}, MaxScriptLen)

\* str.split("\n"): the pieces between newlines, at least one.
RECURSIVE Split(_)
Split(s) ==
  IF \A i \in 1..Len(s) : s[i] # NewLine THEN <<s>>
  ELSE LET k == CHOOSE i \in 1..Len(s) :
                  s[i] = NewLine /\ \A j \in 1..(i - 1) : s[j] # NewLine
       IN  <<SubSeq(s, 1, k - 1)>> \o Split(SubSeq(s, k + 1, Len(s)))

\* script.metadata, an opaque value to the parser.
Metadata == [name |-> "leyline1"]

\* ---------------------------------------------------------------------
\* ScriptParser

VARIABLES
  raw_lines,          \* self.raw_lines
  analysis_dict,      \* self.analysis_dict
  parsed_script,      \* self.parsed_script: [is_none, obj]
  pc,                 \* where the caller of parse() stands
  line_no,            \* the position in raw_lines of the line being parsed
  lines,              \* the ScriptLine objects parse() has collected
  words,              \* parse_line: the tagger's words of the line
  grammar_slices,     \* parse_line: the results of parse_word so far
  word_features,      \* parse_word: what from_fugashi returned, [is_none, rec]
  grammar_fingerprint,\* parse_line: the float16 matrix handed to ScriptLine
  exception,          \* the exception that left the call, if any
  vocab_type          \* what VocabType.from_fugashi returned to its caller

vars ==
  <<raw_lines, analysis_dict, parsed_script, pc, line_no, lines, words,
    grammar_slices, word_features, grammar_fingerprint, exception,
    vocab_type>>

\* No call of VocabType.from_fugashi has been made.
NoVocab == [called |-> FALSE, raised |-> FALSE, value |-> ""]

NoScript == [is_none |-> TRUE, obj |-> [metadata |-> Metadata, lines |-> <<>>]]

\* ScriptParser.__init__ for a script text and an analysis_mode.
Init ==
  /\ \E script \in Scripts : raw_lines = Split(script)
  /\ \E analysis_mode \in BOOLEAN :
       analysis_dict = IF ~analysis_mode THEN NoDict ELSE EmptyDict
  /\ parsed_script = NoScript
  /\ pc = "ready"
  /\ line_no = 0
  /\ lines = <<>>
  /\ words = <<>>
  /\ grammar_slices = <<>>
  /\ word_features = [is_none |-> TRUE, rec |-> NoRecord]
  /\ grammar_fingerprint = None
  /\ exception = NoError
  /\ vocab_type = NoVocab

\* parse() is called: a stored result is returned as it is, otherwise the
\* list comprehension over raw_lines starts with the first line.
Parse ==
  /\ pc \in {"ready", "returned"}
  /\ IF ~parsed_script.is_none
     THEN /\ pc' = "returned"
          /\ UNCHANGED <<line_no, lines>>
     ELSE /\ pc' = "line"
          /\ line_no' = 1
          /\ lines' = <<>>
  /\ UNCHANGED <<raw_lines, analysis_dict, parsed_script, words,
                 grammar_slices, word_features, grammar_fingerprint, exception,
    vocab_type>>

\* parse_line, line 55: the tagger splits the line into words.
Tokenize ==
  /\ pc = "line"
  /\ \E ws \in Tagger(raw_lines[line_no]) : words' = ws
  /\ grammar_slices' = <<>>
  /\ pc' = "word"
  /\ UNCHANGED <<raw_lines, analysis_dict, parsed_script, line_no, lines,
                 word_features, grammar_fingerprint, exception, vocab_type>>

\* parse_word for the next word of the line: from_fugashi, then to_onehot of
\* the record, None for a word without record.  An exception of either is
\* caught nowhere and leaves parse_word, parse_line and parse.
ParseWord ==
  /\ pc = "word"
  /\ Len(grammar_slices) < Len(words)
  /\ LET r == UnidicFeatures29_from_fugashi(words[Len(grammar_slices) + 1],
                                            analysis_dict)
     IN  IF r.raised THEN
           /\ pc' = "raised"
           /\ exception' = r.err
           /\ UNCHANGED <<analysis_dict, grammar_slices, word_features>>
         ELSE IF ~r.is_none /\ UnidicFeatures29_to_onehot_raises(r.rec) THEN
           /\ pc' = "raised"
           /\ exception' = [type |-> "ValueError", cls |-> "list", field |-> None]
           /\ analysis_dict' = r.analysis_dict
           /\ UNCHANGED <<grammar_slices, word_features>>
         ELSE
           /\ analysis_dict' = r.analysis_dict
           /\ word_features' = [is_none |-> r.is_none, rec |-> r.rec]
           /\ grammar_slices' =
                Append(grammar_slices,
                       IF r.is_none THEN None
                       ELSE UnidicFeatures29_to_onehot(r.rec))
           /\ UNCHANGED <<pc, exception>>
  /\ UNCHANGED <<raw_lines, parsed_script, line_no, lines, words,
                 grammar_fingerprint, vocab_type>>

\* The rest of parse_line once every word is parsed (lines 58 to 69), and
\* what parse() does with the ScriptLine: the next line, or after the last
\* line the ParsedScript, stored and returned.
FinishLine ==
  /\ pc = "word"
  /\ Len(grammar_slices) = Len(words)
  /\ LET kept == Kept(grammar_slices)
         line_kwargs == [text |-> raw_lines[line_no],
                         grammar_fingerprint |-> Fingerprint(kept)]
         script_kwargs == [metadata |-> Metadata,
                           lines |-> Append(lines, ModelObject(ScriptLine_fields, line_kwargs)),
                           fingerprint_version |-> "0.1"]
     IN  IF SumRaises(kept) THEN
           /\ pc' = "raised"
           /\ exception' = [type |-> "ValueError", cls |-> "ndarray", field |-> None]
           /\ UNCHANGED <<grammar_fingerprint, lines, line_no, parsed_script>>
         ELSE IF ModelRaises(ScriptLine_fields, line_kwargs) THEN
           /\ grammar_fingerprint' = Fingerprint(kept)
           /\ pc' = "raised"
           /\ exception' = [type |-> "ValidationError", cls |-> "ScriptLine",
                            field |-> None]
           /\ UNCHANGED <<lines, line_no, parsed_script>>
         ELSE IF line_no < Len(raw_lines) THEN
           /\ grammar_fingerprint' = Fingerprint(kept)
           /\ lines' = script_kwargs.lines
           /\ line_no' = line_no + 1
           /\ pc' = "line"
           /\ UNCHANGED <<parsed_script, exception>>
         ELSE IF ModelRaises(ParsedScript_fields, script_kwargs) THEN
           /\ grammar_fingerprint' = Fingerprint(kept)
           /\ lines' = script_kwargs.lines
           /\ pc' = "raised"
           /\ exception' = [type |-> "ValidationError", cls |-> "ParsedScript",
                            field |-> None]
           /\ UNCHANGED <<line_no, parsed_script>>
         ELSE
           /\ grammar_fingerprint' = Fingerprint(kept)
           /\ lines' = script_kwargs.lines
           /\ parsed_script' = [is_none |-> FALSE,
                                obj |-> ModelObject(ParsedScript_fields, script_kwargs)]
           /\ pc' = "returned"
           /\ UNCHANGED <<line_no, exception>>
  /\ UNCHANGED <<raw_lines, analysis_dict, words, grammar_slices, word_features,
                 vocab_type>>

Next == Parse \/ Tokenize \/ ParseWord \/ FinishLine

Spec == Init /\ [][Next]_vars


\* ---------------------------------------------------------------------
\* VocabType (text.py)

\* class VocabType(str, Enum)
VocabType ==
  [ noun |-> "noun", godan_verb |-> "godan_verb",
    ichidan_verb |-> "ichidan_verb", irregular_verb |-> "irregular_verb",
    i_adjective |-> "i_adjective", na_adjective |-> "na_adjective",
    adverb |-> "adverb", particle |-> "particle", pronoun |-> "pronoun",
    other |-> "other" ]

\* UnidicCType.is_godan, is_ichidan, is_irregular: self in the listed members.
UnidicCType_is_godan(self) ==
  self \in {UnidicCType.godan_ka, UnidicCType.godan_ga, UnidicCType.godan_sa,
            UnidicCType.godan_ta, UnidicCType.godan_na, UnidicCType.godan_ba,
            UnidicCType.godan_ma, UnidicCType.godan_ra, UnidicCType.godan_wa}

UnidicCType_is_ichidan(self) ==
  self \in {UnidicCType.ichidan_higher_a, UnidicCType.ichidan_higher_ka,
            UnidicCType.ichidan_higher_ga, UnidicCType.ichidan_higher_za,
            UnidicCType.ichidan_higher_ta, UnidicCType.ichidan_higher_na,
            UnidicCType.ichidan_higher_ha, UnidicCType.ichidan_higher_ba,
            UnidicCType.ichidan_higher_ma, UnidicCType.ichidan_higher_ra,
            UnidicCType.ichidan_lower_a, UnidicCType.ichidan_lower_ka,
            UnidicCType.ichidan_lower_ga, UnidicCType.ichidan_lower_sa,
            UnidicCType.ichidan_lower_za, UnidicCType.ichidan_lower_ta,
            UnidicCType.ichidan_lower_da, UnidicCType.ichidan_lower_na,
            UnidicCType.ichidan_lower_ha, UnidicCType.ichidan_lower_ba,
            UnidicCType.ichidan_lower_ma, UnidicCType.ichidan_lower_ra}

UnidicCType_is_irregular(self) ==
  self \in {UnidicCType.irregular_ka, UnidicCType.irregular_sa,
            UnidicCType.unchanging_type, UnidicCType.special_type,
            UnidicCType.text_irregular_sa, UnidicCType.text_irregular_ra}

Returned(value) == [called |-> TRUE, raised |-> FALSE, value |-> value]

\* VocabType.from_fugashi: the member returned, or raised when
\* features.cType.is_godan() is evaluated with cType None (AttributeError).
VocabType_from_fugashi(features) ==
  IF features["pos1"] = UnidicPos1.noun THEN Returned(VocabType.noun)
  ELSE IF features["pos1"] = UnidicPos1.na_adjective THEN Returned(VocabType.na_adjective)
  ELSE IF features["pos1"] = UnidicPos1.i_adjective THEN Returned(VocabType.i_adjective)
  ELSE IF features["pos1"] = UnidicPos1.adverb THEN Returned(VocabType.adverb)
  ELSE IF features["pos1"] = UnidicPos1.particle THEN Returned(VocabType.particle)
  ELSE IF features["pos1"] = UnidicPos1.pronoun THEN Returned(VocabType.pronoun)
  ELSE IF features["pos1"] = UnidicPos1.verb THEN
    IF features["cType"] = None THEN
      [called |-> TRUE, raised |-> TRUE, value |-> ""]
    ELSE IF UnidicCType_is_godan(features["cType"]) THEN Returned(VocabType.godan_verb)
    ELSE IF UnidicCType_is_ichidan(features["cType"]) THEN Returned(VocabType.ichidan_verb)
    ELSE IF UnidicCType_is_irregular(features["cType"]) THEN Returned(VocabType.irregular_verb)
    ELSE Returned(VocabType.other)
  ELSE Returned(VocabType.other)

\* The records handed to VocabType.from_fugashi: the record of Noun with
\* pos1 and cType each None or any member of its class.
VocabRecords ==
  {[Validated(StrictKwargs(Noun)) EXCEPT !["pos1"] = p, !["cType"] = c] :
     p \in Members("UnidicPos1") \cup {None},
     c \in Members("UnidicCType") \cup {None}}

\* A caller that holds a record and has not called yet.
InitVocab ==
  /\ raw_lines = <<<<>>>>
  /\ analysis_dict = NoDict
  /\ parsed_script = NoScript
  /\ pc = "ready"
  /\ line_no = 0
  /\ lines = <<>>
  /\ words = <<>>
  /\ grammar_slices = <<>>
  /\ \E rec \in VocabRecords : word_features = [is_none |-> FALSE, rec |-> rec]
  /\ grammar_fingerprint = None
  /\ exception = NoError
  /\ vocab_type = NoVocab

\* The call VocabType.from_fugashi(features) and its outcome.
ClassifyVocab ==
  /\ pc = "ready"
  /\ vocab_type' = VocabType_from_fugashi(word_features.rec)
  /\ IF vocab_type'.raised
     THEN /\ pc' = "raised"
          /\ exception' = [type |-> "AttributeError", cls |-> "NoneType", field |-> None]
     ELSE /\ pc' = "returned"
          /\ UNCHANGED exception
  /\ UNCHANGED <<raw_lines, analysis_dict, parsed_script, line_no, lines, words,
                 grammar_slices, word_features, grammar_fingerprint>>

NextVocab == ClassifyVocab

SpecVocab == InitVocab /\ [][NextVocab]_vars
\* ---------------------------------------------------------------------
\* Vocabulary of the properties

\* The parser runs without analysis_dict (strict construction).
Strict == analysis_dict.is_none

\* Some word of the current line has been parsed; the last such word, its
\* slice, and the word parse_word is at when it raises or is about to run.
HasLast == Len(grammar_slices) >= 1

LastWord == words[Len(grammar_slices)]

LastSlice == grammar_slices[Len(grammar_slices)]

AtWord == pc = "word" /\ Len(grammar_slices) < Len(words)

NextWord == words[Len(grammar_slices) + 1]

\* A raw value of closed field f that is neither absent nor a label of f.
Unclassifiable(f, v) == v \notin {Sentinel, None} /\ v \notin Members(FieldClass(f))

Classified(value) ==
  [value |-> value, raw |-> None, raised |-> FALSE, err |-> NoError]

\* C1: for every closed field and every label c of it, classifying c gives c
\* with no unmatched value and no error in strict and in analysis mode, and
\* the encoded row of a record holding c has its single 1 exactly where c
\* stands in the field's get_onehot_order list.
C1_LabelClassifiedAndEncoded ==
  /\ (pc = "raised" /\ exception.type = "ValueError" /\ exception.cls \in EnumClasses)
       => exception.field \notin Members(exception.cls)
  /\ HasLast =>
       \A r \in 1..Len(ClosedFields) :
         LET f == ClosedFields[r]
             c == LastWord[f]
             order == get_onehot_order(FieldClass(f))
         IN  c \in Members(FieldClass(f)) =>
               /\ \A mode \in BOOLEAN :
                    UnidicField_from_fugashi(FieldClass(f), c, mode) = Classified(c)
               /\ f \in DOMAIN analysis_dict.items => c \notin analysis_dict.items[f]
               /\ ~word_features.is_none =>
                    /\ word_features.rec[f] = c
                    /\ \E col \in 1..Len(order) : order[col] = c
                    /\ \A col \in 1..Len(LastSlice[r]) :
                         (LastSlice[r][col] = 1) = (col <= Len(order) /\ order[col] = c)
                    /\ \A col \in 1..Len(LastSlice[r]) : LastSlice[r][col] \in {0, 1}

C1_Witness ==
  /\ HasLast
  /\ ~Strict
  /\ ~word_features.is_none
  /\ LastWord["cType"] = UnidicCType.godan_ka
  /\ word_features.rec["cType"] = UnidicCType.godan_ka
  /\ \E col \in 1..Len(LastSlice[5]) : LastSlice[5][col] = 1

\* C2: a raw value of a closed field that is neither the sentinel nor a label
\* of the field: strict construction raises the ValueError naming the class of
\* the field and the raw value, and never yields a record; analysis
\* construction classifies it as None and stores the raw value in
\* analysis_dict under the field's name.
C2_UnclassifiableValue ==
  /\ (Strict /\ HasLast) =>
       \A f \in Range(ClosedFields) : ~Unclassifiable(f, LastWord[f])
  /\ (Strict /\ AtWord) =>
       \A f \in Range(ClosedFields) :
         Unclassifiable(f, NextWord[f]) =>
           UnidicField_from_fugashi(FieldClass(f), NextWord[f], FALSE) =
             [value |-> None, raw |-> None, raised |-> TRUE,
              err |-> [type |-> "ValueError", cls |-> FieldClass(f),
                       field |-> NextWord[f]]]
  /\ (pc = "raised" /\ exception.type = "ValueError") =>
       \E f \in Range(ClosedFields) :
         /\ Unclassifiable(f, NextWord[f])
         /\ exception.cls = FieldClass(f)
         /\ exception.field = NextWord[f]
  /\ (~Strict /\ HasLast) =>
       \A f \in Range(ClosedFields) :
         Unclassifiable(f, LastWord[f]) =>
           /\ UnidicField_from_fugashi(FieldClass(f), LastWord[f], TRUE) =
                [value |-> None, raw |-> LastWord[f], raised |-> FALSE,
                 err |-> NoError]
           /\ f \in DOMAIN analysis_dict.items
           /\ LastWord[f] \in analysis_dict.items[f]
           /\ ~word_features.is_none => word_features.rec[f] = None

C2_Witness ==
  /\ ~Strict
  /\ HasLast
  /\ LastWord = Unknown
  /\ ~word_features.is_none
  /\ word_features.rec["pos1"] = None
  /\ "pos1" \in DOMAIN analysis_dict.items
  /\ Junk \in analysis_dict.items["pos1"]

\* C3: in a closed field the sentinel "*" and None are classified as None in
\* strict and in analysis mode: the step that parses such a word raises no
\* error for that field and leaves the field's entry of analysis_dict as it
\* was.
C3_AbsenceIsNull ==
  [][ AtWord =>
        \A f \in Range(ClosedFields) :
          NextWord[f] \in {Sentinel, None} =>
            /\ \A mode \in BOOLEAN :
                 UnidicField_from_fugashi(FieldClass(f), NextWord[f], mode)
                   = Classified(None)
            /\ (f \in DOMAIN analysis_dict'.items) = (f \in DOMAIN analysis_dict.items)
            /\ f \in DOMAIN analysis_dict.items
                 => analysis_dict'.items[f] = analysis_dict.items[f]
            /\ ~(exception'.type = "ValueError" /\ exception'.cls = FieldClass(f))
            /\ (pc' = "word" /\ ~word_features'.is_none)
                 => word_features'.rec[f] = None
    ]_vars

C3_Witness ==
  /\ HasLast
  /\ ~word_features.is_none
  /\ LastWord["pos4"] = Sentinel
  /\ LastWord["goshu"] = None
  /\ word_features.rec["pos4"] = None
  /\ word_features.rec["goshu"] = None

RECURSIVE RowSum(_, _)
RowSum(row, n) == IF n = 0 THEN 0 ELSE RowSum(row, n - 1) + row[n]

\* C4 (as claimed): for a line of N > 1 kept words each cell of the
\* fingerprint is k / N at float16 precision, k the number of kept words
\* with a 1 in that cell; so every cell lies in [0, 1] and every row sums to
\* at most 1.
C4_CellsAreMeans ==
  (grammar_fingerprint # None /\ Len(Kept(grammar_slices)) > 1) =>
    LET kept == Kept(grammar_slices)
        n == Len(kept)
    IN  \A r \in 1..Len(grammar_fingerprint) :
          /\ \A c \in 1..Len(grammar_fingerprint[r]) :
               LET k == Cardinality({i \in 1..n : kept[i][r][c] = 1})
               IN  /\ grammar_fingerprint[r][c] = Float16Div(k, n)
                   /\ grammar_fingerprint[r][c] >= 0
                   /\ grammar_fingerprint[r][c] <= One
          /\ RowSum(grammar_fingerprint[r], Len(grammar_fingerprint[r])) <= One

\* C5 (as claimed): a word that cannot be classified or assembled never ends
\* parse_line or parse with an exception, in either mode.
C5_WordFailureContained ==
  ~(pc = "raised" /\ exception.cls \in EnumClasses \cup {"UnidicFeatures29"})

\* C6 (as claimed): the ScriptLine and ParsedScript constructors accept what
\* the parser passes; every ScriptLine carries its grammar_fingerprint and
\* the returned ParsedScript one line per raw line and the
\* fingerprint_version.
C6_ParseReturnsFingerprints ==
  /\ exception.cls \notin {"ScriptLine", "ParsedScript"}
  /\ \A i \in 1..Len(lines) : "grammar_fingerprint" \in DOMAIN lines[i]
  /\ ~parsed_script.is_none =>
       /\ "fingerprint_version" \in DOMAIN parsed_script.obj
       /\ Len(parsed_script.obj.lines) = Len(raw_lines)

\* A word whose closed fields all classify and whose ids are numeric: only
\* its freeform fields may be absent.
FreeformOnly(w) ==
  /\ \A f \in Range(ClosedFields) : ~Unclassifiable(f, w[f])
  /\ \A f \in IntFields : IsDigits(w[f])

\* C7 (as claimed): a freeform field never makes the word fail, in either
\* mode: a present raw str is kept unchanged, and None is replaced by one
\* value that strict and analysis construction share.
C7_FreeformNeverFails ==
  (HasLast /\ FreeformOnly(LastWord)) =>
    /\ ~word_features.is_none
    /\ \A f \in StrFields \cup GeneralFields :
         /\ (LastWord[f] # None /\ ~(f \in GeneralFields /\ LastWord[f] = Sentinel))
              => word_features.rec[f] = LastWord[f]
         /\ LastWord[f] = None =>
              /\ word_features.rec[f] = UnidicFeatures29_from_fugashi(LastWord, NoDict).rec[f]
              /\ word_features.rec[f] = UnidicFeatures29_from_fugashi(LastWord, EmptyDict).rec[f]

\* C8: every record encodes to 8 rows, one per closed field in the order
\* pos1, pos2, pos3, pos4, cType, cForm, goshu, type, of 81 columns, the
\* category count of cType and the largest of all; the slices of a line
\* never differ in shape.
C8_EncodedShapeIsFixed ==
  /\ ClosedFields = <<"pos1", "pos2", "pos3", "pos4", "cType", "cForm", "goshu", "type">>
  /\ Len(get_onehot_order("UnidicCType")) = 81
  /\ \A cls \in EnumClasses : Len(get_onehot_order(cls)) <= 81
  /\ (HasLast /\ ~word_features.is_none) =>
       /\ Len(LastSlice) = 8
       /\ \A r \in 1..Len(LastSlice) : Len(LastSlice[r]) = 81
  /\ Len(grammar_slices) = Len(words) => ~SumRaises(Kept(grammar_slices))
  /\ exception.cls # "ndarray"

C8_Witness ==
  /\ words = <<Noun, Verb>>
  /\ Len(Kept(grammar_slices)) = 2
  /\ grammar_slices[1] # grammar_slices[2]
  /\ Shape(grammar_slices[1]) = Shape(grammar_slices[2])
  /\ grammar_fingerprint # None

\* C9: in an encoded word matrix the row of a closed field is all zero
\* exactly when the record's attribute is None, and otherwise holds one 1 and
\* zeros; the 1 stands below the field's category count, the padding is zero.
C9_RowsAreOneHotOrZero ==
  (HasLast /\ ~word_features.is_none) =>
    \A r \in 1..Len(LastSlice) :
      LET row == LastSlice[r]
          f == ClosedFields[r]
          n == Len(get_onehot_order(FieldClass(f)))
          ones == {c \in 1..Len(row) : row[c] = 1}
      IN  /\ \A c \in 1..Len(row) : row[c] \in {0, 1}
          /\ (word_features.rec[f] = None) = (ones = {})
          /\ word_features.rec[f] # None => (Cardinality(ones) = 1 /\ ones \subseteq 1..n)
          /\ \A c \in (n + 1)..Len(row) : row[c] = 0

C9_Witness ==
  /\ HasLast
  /\ LastWord = Verb
  /\ ~word_features.is_none
  /\ word_features.rec["pos3"] = None
  /\ \A c \in 1..Len(LastSlice[3]) : LastSlice[3][c] = 0
  /\ Cardinality({c \in 1..Len(LastSlice[5]) : LastSlice[5][c] = 1}) = 1

\* C10: a line without kept words has an all-zero fingerprint of the shape
\* to_onehot gives every record: the hard-coded (8, 81) is the number of
\* closed fields by the largest category count.
C10_EmptyLineFingerprint ==
  /\ (grammar_fingerprint # None /\ Len(Kept(grammar_slices)) = 0) =>
       /\ \A r \in 1..Len(grammar_fingerprint) :
            \A c \in 1..Len(grammar_fingerprint[r]) : grammar_fingerprint[r][c] = 0
       /\ Shape(grammar_fingerprint) = <<Len(ClosedFields), MaxLength(Len(ClosedFields))>>
  /\ (HasLast /\ ~word_features.is_none) =>
       Shape(LastSlice) = <<FingerprintRows, FingerprintCols>>

C10_Witness ==
  /\ ~Strict
  /\ words = <<Unlisted, Unlisted>>
  /\ Len(grammar_slices) = 2
  /\ Kept(grammar_slices) = <<>>
  /\ grammar_fingerprint # None
  /\ Shape(grammar_fingerprint) = <<8, 81>>


\* ---------------------------------------------------------------------
\* Aggregation of a line

\* C11: a line with exactly one kept word has the fingerprint of that word's
\* matrix, cell for cell: the same shape, every cell 0.0 or 1.0 and equal to
\* the int8 cell of the matrix.
C11_SingleWordUnchanged ==
  (grammar_fingerprint # None /\ Len(Kept(grammar_slices)) = 1) =>
    LET m == Kept(grammar_slices)[1]
    IN  /\ Shape(grammar_fingerprint) = Shape(m)
        /\ \A r \in 1..Len(m) : \A c \in 1..Len(m[r]) :
             /\ grammar_fingerprint[r][c] = m[r][c] * One
             /\ grammar_fingerprint[r][c] \in {0, One}

C11_Witness ==
  /\ ~Strict
  /\ words = <<Noun, Unlisted>>
  /\ grammar_fingerprint # None
  /\ Len(Kept(grammar_slices)) = 1
  /\ grammar_fingerprint[1][IndexOf(UnidicPos1_get_onehot_order, UnidicPos1.noun)] = One

\* C12: for two kept words whose pos1 rows have their 1 at different
\* columns i and j, the pos1 row of the fingerprint is 1/2 at i, 1/2 at j
\* and 0 in every other column.
C12_TwoWordsHalfAndHalf ==
  (grammar_fingerprint # None /\ Len(Kept(grammar_slices)) = 2) =>
    LET A == Kept(grammar_slices)[1]
        B == Kept(grammar_slices)[2]
        I == {c \in 1..Len(A[1]) : A[1][c] = 1}
        J == {c \in 1..Len(B[1]) : B[1][c] = 1}
    IN  (Cardinality(I) = 1 /\ Cardinality(J) = 1 /\ I # J) =>
          \A c \in 1..Len(grammar_fingerprint[1]) :
            grammar_fingerprint[1][c] = IF c \in I \cup J THEN One \div 2 ELSE 0

C12_Witness ==
  /\ words = <<Noun, Verb>>
  /\ grammar_fingerprint # None
  /\ IndexOf(UnidicPos1_get_onehot_order, UnidicPos1.noun)
       # IndexOf(UnidicPos1_get_onehot_order, UnidicPos1.verb)
  /\ grammar_fingerprint[1][IndexOf(UnidicPos1_get_onehot_order, UnidicPos1.noun)] = One \div 2
  /\ grammar_fingerprint[1][IndexOf(UnidicPos1_get_onehot_order, UnidicPos1.verb)] = One \div 2

\* C13 (as claimed): in analysis mode a line of W words of which D have no
\* record has the fingerprint of the mean over the W - D others: each cell
\* is the number of those with a 1 there divided by W - D, at float16
\* precision.
C13_DroppedWordsNotCounted ==
  (~Strict /\ grammar_fingerprint # None) =>
    LET W == Len(words)
        dropped == {i \in 1..W : grammar_slices[i] = None}
        D == Cardinality(dropped)
        survivors == (1..W) \ dropped
    IN  /\ dropped = {i \in 1..W :
                        UnidicFeatures29_from_fugashi(words[i], EmptyDict).is_none}
        /\ Len(Kept(grammar_slices)) = W - D
        /\ W - D >= 1 =>
             \A r \in 1..Len(grammar_fingerprint) :
               \A c \in 1..Len(grammar_fingerprint[r]) :
                 grammar_fingerprint[r][c] =
                   Float16Div(Cardinality({i \in survivors : grammar_slices[i][r][c] = 1}),
                              W - D)

\* ---------------------------------------------------------------------
\* analysis_dict over the words of a run

\* analysis_dict after from_fugashi of ws[1] .. ws[n] in turn, from d on.
RECURSIVE LedgerAfter(_, _, _)
LedgerAfter(ws, d, n) ==
  IF n = 0 THEN d
  ELSE UnidicFeatures29_from_fugashi(ws[n], LedgerAfter(ws, d, n - 1)).analysis_dict

Reverse(s) == [i \in 1..Len(s) |-> s[Len(s) + 1 - i]]

\* The orders a list of words is replayed in: every permutation of a short
\* list, the reversal and the rotation of a long one.
Reorderings(s) ==
  IF Len(s) <= 3
  THEN {[i \in 1..Len(s) |-> s[p[i]]] :
          p \in {q \in [1..Len(s) -> 1..Len(s)] :
                   \A i, j \in 1..Len(s) : q[i] = q[j] => i = j}}
  ELSE {Reverse(s), [i \in 1..Len(s) |-> s[(i % Len(s)) + 1]]}

\* Dicts a parser is seeded with: empty, and the result of earlier documents.
Seeds ==
  {EmptyDict,
   DictAdd(EmptyDict, "pos1", Junk),
   DictAdd(DictAdd(EmptyDict, "pos1", Letters), "type", Junk)}

AllParsed == Len(grammar_slices) = Len(words) /\ Len(words) >= 1

\* C14: analysis_dict after the words of a run does not depend on their
\* order: the dict the parser holds once a line is parsed is the one that
\* any reordering of the line's words gives, from an empty dict and from any
\* seeded one, and parsing a word again whose unmatched values are already
\* recorded changes nothing.
C14_LedgerOrderIndependent ==
  (~Strict /\ AllParsed) =>
    /\ analysis_dict = LedgerAfter(words, EmptyDict, Len(words))
    /\ \A ws \in Reorderings(words) :
         analysis_dict = LedgerAfter(ws, EmptyDict, Len(ws))
    /\ \A seed \in Seeds : \A ws \in Reorderings(words) :
         LedgerAfter(ws, seed, Len(ws)) = LedgerAfter(words, seed, Len(words))
    /\ \A i \in 1..Len(words) :
         UnidicFeatures29_from_fugashi(words[i], analysis_dict).analysis_dict
           = analysis_dict

C14_Witness ==
  /\ ~Strict
  /\ words = <<Unknown, Foreign>>
  /\ AllParsed
  /\ analysis_dict.items["pos1"] = {Junk, Letters}
  /\ analysis_dict.items["goshu"] = {Junk}
  /\ analysis_dict.items["cType"] = {Letters}

\* C15: in analysis mode analysis_dict only grows: after every step each key
\* present before is present and its set holds every value it held, also in
\* the step of a word that gets no record; the same holds for from_fugashi
\* on a seeded dict.
C15_LedgerGrows ==
  [][ ~Strict =>
        /\ ~analysis_dict'.is_none
        /\ \A k \in DOMAIN analysis_dict.items :
             /\ k \in DOMAIN analysis_dict'.items
             /\ analysis_dict.items[k] \subseteq analysis_dict'.items[k]
        /\ AtWord =>
             \A seed \in Seeds :
               LET after == UnidicFeatures29_from_fugashi(NextWord, seed).analysis_dict
               IN  \A k \in DOMAIN seed.items :
                     /\ k \in DOMAIN after.items
                     /\ seed.items[k] \subseteq after.items[k]
    ]_vars

C15_Witness ==
  /\ ~Strict
  /\ words = <<Unknown, Unlisted>>
  /\ Len(grammar_slices) = 2
  /\ grammar_slices[1] # None
  /\ grammar_slices[2] = None
  /\ Junk \in analysis_dict.items["pos1"]

\* C16: in analysis mode a value of one closed field that is no label never
\* raises, and leaves the other closed fields of the word as they are with
\* that field absent: the same attribute, the same entry of analysis_dict,
\* the same decision whether the word gets a record; and every unmatched
\* value of the word, in whatever field, is in analysis_dict after the call.
C16_FieldFailuresIndependent ==
  /\ ~Strict => exception.cls \notin EnumClasses
  /\ (~Strict /\ HasLast) =>
       LET w == LastWord
           missing == {f \in Range(ClosedFields) : Unclassifiable(f, w[f])}
           r == UnidicFeatures29_from_fugashi(w, EmptyDict)
       IN  /\ \A f \in missing :
                /\ f \in DOMAIN analysis_dict.items
                /\ w[f] \in analysis_dict.items[f]
                /\ r.analysis_dict.items[f] = {w[f]}
           /\ ~r.raised
           /\ r.is_none = word_features.is_none
           /\ \A f \in missing :
                LET w0 == [w EXCEPT ![f] = None]
                    r0 == UnidicFeatures29_from_fugashi(w0, EmptyDict)
                IN  /\ r0.is_none = r.is_none
                    /\ f \notin DOMAIN r0.analysis_dict.items
                    /\ \A g \in Range(ClosedFields) \ {f} :
                         /\ AnalysisKwargs(w)[g] = AnalysisKwargs(w0)[g]
                         /\ ~word_features.is_none =>
                              word_features.rec[g] = r0.rec[g]
                         /\ (g \in DOMAIN r.analysis_dict.items)
                              = (g \in DOMAIN r0.analysis_dict.items)
                         /\ g \in DOMAIN r0.analysis_dict.items =>
                              r.analysis_dict.items[g] = r0.analysis_dict.items[g]

C16_Witness ==
  /\ ~Strict
  /\ HasLast
  /\ LastWord = Unknown
  /\ ~word_features.is_none
  /\ word_features.rec["pos1"] = None
  /\ word_features.rec["cType"] = None
  /\ word_features.rec["pos2"] = UnidicPos2.common_noun
  /\ Junk \in analysis_dict.items["pos1"]
  /\ Letters \in analysis_dict.items["cType"]

\* ---------------------------------------------------------------------
\* Records and their encoding

\* The category list of closed field f.
Categories(f) == Range(get_onehot_order(FieldClass(f)))

InCategories(rec) ==
  \A f \in Range(ClosedFields) :
    rec[f] = None \/ (rec[f] \in Categories(f) /\ rec[f] # Sentinel)

\* C17: in every record from_fugashi returns, with or without
\* analysis_dict, each of the eight closed attributes is None or an entry of
\* its own field's category list, never another str and never "*".
C17_ClosedAttributesInCategories ==
  /\ ~word_features.is_none => InCategories(word_features.rec)
  /\ AtWord =>
       \A d \in {NoDict, EmptyDict} :
         LET r == UnidicFeatures29_from_fugashi(NextWord, d)
         IN  (~r.raised /\ ~r.is_none) => InCategories(r.rec)

C17_Witness ==
  /\ ~Strict
  /\ HasLast
  /\ LastWord = Foreign
  /\ ~word_features.is_none
  /\ word_features.rec["pos1"] = None
  /\ word_features.rec["goshu"] = None
  /\ word_features.rec["pos2"] = UnidicPos2.common_noun
  /\ word_features.rec["pos2"] \in Categories("pos2")

\* The record that keeps the closed attributes of rec and nothing else.
ClosedPart(rec) ==
  [f \in FieldNames |-> IF f \in Range(ClosedFields) THEN rec[f] ELSE None]

\* What parse_word returns for each word of ws when the parser's
\* analysis_dict is d, and whether every from_fugashi returns.
LineSlices(ws, d) ==
  [i \in 1..Len(ws) |->
     LET r == UnidicFeatures29_from_fugashi(ws[i], d)
     IN  IF r.is_none \/ r.raised THEN None
         ELSE UnidicFeatures29_to_onehot(r.rec)]

Constructible(ws, d) ==
  \A i \in 1..Len(ws) : ~UnidicFeatures29_from_fugashi(ws[i], d).raised

\* C18 (as claimed): the matrix of a record is that of its closed attributes
\* alone, equal for words of a line whose closed attributes are equal; and
\* the fingerprint of a line is the one its words give under any
\* analysis_dict, absent, empty or seeded, for which construction returns.
C18_EncodingIgnoresHistory ==
  /\ (HasLast /\ ~word_features.is_none) =>
       /\ LastSlice = UnidicFeatures29_to_onehot(ClosedPart(word_features.rec))
       /\ \A i \in 1..Len(grammar_slices) :
            (grammar_slices[i] # None
               /\ \A f \in Range(ClosedFields) :
                    AnalysisKwargs(words[i])[f] = word_features.rec[f])
              => grammar_slices[i] = LastSlice
  /\ grammar_fingerprint # None =>
       \A d \in {NoDict} \cup Seeds :
         Constructible(words, d) =>
           grammar_fingerprint = Fingerprint(Kept(LineSlices(words, d)))

\* The properties of the get_onehot_order lists that no state changes.
OrdersAreCanonical ==
  /\ \A cls \in EnumClasses :
       LET order == get_onehot_order(cls)
       IN  /\ Len(order) = Cardinality(Members(cls))
           /\ Range(order) = Members(cls)
           /\ \A i, j \in 1..Len(order) : order[i] = order[j] => i = j
           /\ cls \notin {"UnidicPos3", "UnidicPos4"} =>
                \A i \in 1..(Len(order) - 1) : StrLt(order[i], order[i + 1])
           /\ \A m \in Members(cls) :
                /\ ~UnidicField_to_onehot_raises(cls, m)
                /\ order[IndexOf(order, m)] = m
  /\ UnidicPos3_get_onehot_order[1] = UnidicPos3.ordinary
  /\ UnidicPos3_get_onehot_order[Len(UnidicPos3_get_onehot_order)] = UnidicPos3.other
  /\ UnidicPos4_get_onehot_order[1] = UnidicPos4.country_name
  /\ UnidicPos4_get_onehot_order[Len(UnidicPos4_get_onehot_order)] = UnidicPos4.other

\* C19: each get_onehot_order list holds every member of its class exactly
\* once and nothing else, in code-point order of the labels for pos1, pos2,
\* cType, cForm, goshu and type and in the listed order for pos3 and pos4;
\* the list is the same at every call, so the index lookup of to_onehot
\* finds every member and never raises, and the 1 of every encoded row
\* stands at the member's place in the list.
C19_OrdersCoverMembers ==
  /\ OrdersAreCanonical
  /\ exception.cls # "list"
  /\ (HasLast /\ ~word_features.is_none) =>
       \A r \in 1..Len(ClosedFields) :
         LET v == word_features.rec[ClosedFields[r]]
             order == get_onehot_order(FieldClass(ClosedFields[r]))
         IN  v # None =>
               /\ IndexOf(order, v) \in 1..Len(order)
               /\ LastSlice[r][IndexOf(order, v)] = 1

C19_Witness ==
  /\ HasLast
  /\ ~word_features.is_none
  /\ LastWord["pos3"] = UnidicPos3.other
  /\ word_features.rec["pos3"] = UnidicPos3.other
  /\ LastSlice[3][Len(UnidicPos3_get_onehot_order)] = 1

\* A word whose closed fields each hold a label, "*" or None and whose ids
\* are numeric or None.
ClosedFieldsClassify(w) ==
  /\ \A f \in Range(ClosedFields) : ~Unclassifiable(f, w[f])
  /\ \A f \in IntFields : w[f] = None \/ IsDigits(w[f])

\* C20 (as claimed): for a word whose closed fields each hold a label, "*"
\* or None, from_fugashi without analysis_dict and with one both return a
\* record, the two records agree in every attribute and encode to the same
\* matrix, whatever freeform fields and ids are None.
C20_ModesAgree ==
  (HasLast /\ ClosedFieldsClassify(LastWord)) =>
    LET s == UnidicFeatures29_from_fugashi(LastWord, NoDict)
        t == UnidicFeatures29_from_fugashi(LastWord, EmptyDict)
    IN  /\ ~s.raised /\ ~s.is_none
        /\ ~t.raised /\ ~t.is_none
        /\ s.rec = t.rec
        /\ UnidicFeatures29_to_onehot(s.rec) = UnidicFeatures29_to_onehot(t.rec)

\* ---------------------------------------------------------------------
\* The contents of analysis_dict

\* Every key is a closed field, every set has an element, and no stored
\* value is "*" or a label of the field it is stored under.
LedgerWellFormed ==
  /\ DOMAIN analysis_dict.items \subseteq Range(ClosedFields)
  /\ DOMAIN analysis_dict.items \cap GeneralFields = {}
  /\ \A k \in DOMAIN analysis_dict.items :
       /\ analysis_dict.items[k] # {}
       /\ Sentinel \notin analysis_dict.items[k]
       /\ analysis_dict.items[k] \cap Members(FieldClass(k)) = {}
  /\ analysis_dict.is_none => DOMAIN analysis_dict.items = {}

\* C21: in every state of a parse that starts with the empty analysis_dict
\* the keys are among pos1, pos2, pos3, pos4, cType, cForm, goshu and type,
\* every set has an element, no stored value is "*" or a label of its
\* field, and iType, iForm, fType, fForm, iConType, fConType and aModType
\* never get an entry; a parser without analysis_dict never gets one.
C21_LedgerHoldsOnlyMisses ==
  [][ /\ LedgerWellFormed
      /\ LedgerWellFormed'
      /\ analysis_dict'.is_none = analysis_dict.is_none
    ]_vars

C21_Witness ==
  /\ ~Strict
  /\ words = <<Foreign, Unknown>>
  /\ AllParsed
  /\ DOMAIN analysis_dict.items = {"pos1", "cType", "goshu"}
  /\ word_features.rec["iType"] = None
  /\ LedgerWellFormed

\* ---------------------------------------------------------------------
\* Repeated calls of parse()

C23_VocabTypeTotal ==
  vocab_type.called =>
    LET features == word_features.rec
        pos1 == features["pos1"]
        cType == features["cType"]
    IN  /\ ~vocab_type.raised
        /\ pc # "raised"
        /\ vocab_type.value \in Values(VocabType)
        /\ vocab_type.value =
             (IF pos1 = UnidicPos1.noun THEN "noun"
              ELSE IF pos1 = UnidicPos1.na_adjective THEN "na_adjective"
              ELSE IF pos1 = UnidicPos1.i_adjective THEN "i_adjective"
              ELSE IF pos1 = UnidicPos1.adverb THEN "adverb"
              ELSE IF pos1 = UnidicPos1.particle THEN "particle"
              ELSE IF pos1 = UnidicPos1.pronoun THEN "pronoun"
              ELSE IF pos1 = UnidicPos1.verb /\ cType # None
                        /\ UnidicCType_is_godan(cType) THEN "godan_verb"
              ELSE IF pos1 = UnidicPos1.verb /\ cType # None
                        /\ UnidicCType_is_ichidan(cType) THEN "ichidan_verb"
              ELSE IF pos1 = UnidicPos1.verb /\ cType # None
                        /\ UnidicCType_is_irregular(cType) THEN "irregular_verb"
              ELSE "other")
====
